---- MODULE Spec2Model ----
(***************************************************************************)
(* The modal input handling of the editor (src/src/mode.rs): six modes,    *)
(* each with an `event` handler that reads one terminal event, may mutate  *)
(* the buffer and returns one Transition.  The driver replaces the current *)
(* mode on Trans and stops on Exit.                                        *)
(*                                                                         *)
(* The buffer (buffer::Buffer, core::Core) and the rendering surface       *)
(* (draw::Term) are other files of the repository; their operations are    *)
(* modelled from the contracts the specification gives for them.           *)
(***************************************************************************)
EXTENDS Integers, Sequences, FiniteSets, TLC

VARIABLES
    mode,        \* the current Box<Mode>: [name, message, path]
    buf,         \* the Buffer: [buffer, cursor, row_offset, path, search]
    trans,       \* the Transition the last call of event returned
    prev,        \* the mode that handled the last event and the buffer it got
    lastEvent,   \* the last event handled
    saved,       \* what Buffer::save returned, for each time the last call invoked it
    arith,       \* "wrapped" when the last call wrapped a subtraction
    ins,         \* the buffer as it was when `i` was pressed, and the keys typed since
    budget       \* how many more events may change text, query or typed path, and whether the wheel is used

vars == <<mode, buf, trans, prev, lastEvent, saved, arith, ins, budget>>

(***************************************************************************)
(* Bounds                                                                  *)
(***************************************************************************)
MaxEdits == 1
MaxTyped == 2
MaxQuery == 3
MaxInitLines == 5
TermHeight == 1
TermWidth == 1

\* stands for usize::MAX, the value 0usize - 1 wraps to in a release build
UsizeMax == 2147483647

\* the characters typed into text and query
Typed == {"x", " "}
\* the text the editor opens on
NewText == <<<<" ", "x">>, <<>>>>
File(i) == IF i <= Len(NewText) THEN NewText[i] ELSE <<>>

\* the keys Normal binds, and one it does not
NormalChars == {"i", "I", "a", "A", "r", "o", "O", "h", "j", "k", "l", "/", " ",
                "q"}
\* the keys Prefix binds, and one it does not
PrefixChars == {"q", "s", "i"}

(***************************************************************************)
(* termion::event::Event                                                   *)
(***************************************************************************)
Key(c) == [kind |-> "Char", c |-> c, x |-> 0, y |-> 0]
Esc == [kind |-> "Esc", c |-> "", x |-> 0, y |-> 0]
Backspace == [kind |-> "Backspace", c |-> "", x |-> 0, y |-> 0]
Unsupported == [kind |-> "Unsupported", c |-> "", x |-> 0, y |-> 0]
Press(button, x, y) == [kind |-> button, c |-> "", x |-> x, y |-> y]

(***************************************************************************)
(* Transition and the six modes                                            *)
(***************************************************************************)
Normal_new == [name |-> "Normal", message |-> "", path |-> <<>>]
Normal_with_message(message) == [name |-> "Normal", message |-> message, path |-> <<>>]
Prefix == [name |-> "Prefix", message |-> "", path |-> <<>>]
Insert == [name |-> "Insert", message |-> "", path |-> <<>>]
R == [name |-> "R", message |-> "", path |-> <<>>]
Search == [name |-> "Search", message |-> "", path |-> <<>>]
Save(p) == [name |-> "Save", message |-> "", path |-> p]

None == [some |-> FALSE, p |-> ""]
Some(p) == [some |-> TRUE, p |-> p]

\* what one call of event yields: the Transition, the mode that is current
\* afterwards, the buffer afterwards
Result(t, m, b) == [t |-> t, m |-> m, buf |-> b, saved |-> <<>>, arith |-> "ok"]
Nothing(self, b) == Result("Nothing", self, b)
Trans(m, b) == Result("Trans", m, b)
Exit(self, b) == Result("Exit", self, b)
Panic(self, b) == Result("Panic", self, b)

\* String from its characters (String::push, format!)
RECURSIVE StrOf(_)
StrOf(s) == IF s = <<>> THEN "" ELSE Head(s) \o StrOf(Tail(s))

Min(a, b) == IF a < b THEN a ELSE b

(***************************************************************************)
(* core::Core, buffer::Buffer and draw::Term, from their contracts         *)
(***************************************************************************)
current_line(b) == b.buffer[b.cursor.row + 1]

cursor_left(b) ==
    IF b.cursor.col > 0 THEN [b EXCEPT !.cursor.col = @ - 1] ELSE b

cursor_right(b) ==
    IF b.cursor.col < Len(current_line(b)) THEN [b EXCEPT !.cursor.col = @ + 1] ELSE b

cursor_up(b) ==
    IF b.cursor.row > 0
    THEN [b EXCEPT !.cursor = [row |-> b.cursor.row - 1,
                               col |-> Min(b.cursor.col, Len(b.buffer[b.cursor.row]))]]
    ELSE b

cursor_down(b) ==
    IF b.cursor.row + 1 < Len(b.buffer)
    THEN [b EXCEPT !.cursor = [row |-> b.cursor.row + 1,
                               col |-> Min(b.cursor.col, Len(b.buffer[b.cursor.row + 2]))]]
    ELSE b

InsertAt(s, i, v) == SubSeq(s, 1, i) \o <<v>> \o SubSeq(s, i + 1, Len(s))
RemoveAt(s, i) == SubSeq(s, 1, i - 1) \o SubSeq(s, i + 1, Len(s))

\* insert c at the cursor, the cursor advances
insert(b, c) ==
    [b EXCEPT !.buffer[b.cursor.row + 1] = InsertAt(@, b.cursor.col, c),
              !.cursor.col = @ + 1]

\* a new line below the cursor's line, the cursor moves into it
insert_newline(b) ==
    [b EXCEPT !.buffer = InsertAt(@, b.cursor.row + 1, <<>>),
              !.cursor = [row |-> b.cursor.row + 1, col |-> 0]]

\* delete the character before the cursor, joining lines at column 0
backspase(b) ==
    IF b.cursor.col > 0
    THEN [b EXCEPT !.buffer[b.cursor.row + 1] = RemoveAt(@, b.cursor.col),
                   !.cursor.col = @ - 1]
    ELSE IF b.cursor.row > 0
    THEN [b EXCEPT !.buffer = SubSeq(@, 1, b.cursor.row - 1)
                              \o <<@[b.cursor.row] \o @[b.cursor.row + 1]>>
                              \o SubSeq(@, b.cursor.row + 2, Len(@)),
                   !.cursor = [row |-> b.cursor.row - 1,
                               col |-> Len(b.buffer[b.cursor.row])]]
    ELSE b

\* overwrite the character under the cursor; at the end of a line there is
\* none, and the contract leaves open whether c is appended (atEnd) or dropped
replace(b, c, atEnd) ==
    IF b.cursor.col < Len(current_line(b))
    THEN [b EXCEPT !.buffer[b.cursor.row + 1][b.cursor.col + 1] = c]
    ELSE IF atEnd
    THEN [b EXCEPT !.buffer[b.cursor.row + 1] = Append(@, c)]
    ELSE b

\* Buffer::save: Err when the buffer has no path, else Ok(the result of the write)
save(b, io) == IF ~b.path.some THEN "Err" ELSE IF io THEN "Ok(Ok)" ELSE "Ok(Err)"

\* Term::pos after Buffer::draw on the full view: the buffer position drawn
\* in the screen cell, if a character of the text is drawn there
pos(b, cursor) ==
    IF /\ cursor.row < TermHeight
       /\ cursor.col < TermWidth
       /\ b.row_offset + cursor.row < Len(b.buffer)
       /\ cursor.col < Len(b.buffer[b.row_offset + cursor.row + 1])
    THEN [some |-> TRUE, c |-> [row |-> b.row_offset + cursor.row, col |-> cursor.col]]
    ELSE [some |-> FALSE, c |-> cursor]

(***************************************************************************)
(* impl Mode for Normal                                                    *)
(***************************************************************************)
\* Ignored, were the catch-all arm to leave the mode
Ignored_Leaves(self, b) == Trans(Normal_new, b)

\* Ignored, were an unbound event to quit
Ignored_Exits(self, b) == Exit(self, b)

\* the arm `_ => {}` of every handler, followed by Transition::Nothing
Ignored(self, b) == Nothing(self, b)

\* Key::Char('I'): the first column of the line that holds no space
RECURSIVE FirstNonSpace(_, _)
FirstNonSpace(line, i) ==
    IF i < Len(line) /\ line[i + 1] = " " THEN FirstNonSpace(line, i + 1) ELSE i

\* `v as usize - 1` in a release build
Sub1(v) == IF v = 0 THEN UsizeMax ELSE v - 1

\* MouseEvent::Press(MouseButton::Left, x, y)
LeftPress(self, b, e, bld) ==
    IF (e.x = 0 \/ e.y = 0) /\ bld = "debug"
    THEN Panic(self, b)
    ELSE LET cursor == [row |-> Sub1(e.y), col |-> Sub1(e.x)]
             c == pos(b, cursor)
             r == Nothing(self, IF c.some THEN [b EXCEPT !.cursor = c.c] ELSE b)
         IN  [r EXCEPT !.arith = IF e.x = 0 \/ e.y = 0 THEN "wrapped" ELSE "ok"]

\* WheelUp without the test against 3
WheelUp_NoFloor(b) == [b EXCEPT !.row_offset = @ - 3]

\* MouseEvent::Press(MouseButton::WheelUp, _, _)
WheelUp(b) ==
    IF b.row_offset < 3
    THEN [b EXCEPT !.row_offset = 0]
    ELSE [b EXCEPT !.row_offset = @ - 3]

\* WheelDown without the cap at the last line
WheelDown_NoClamp(b) == [b EXCEPT !.row_offset = @ + 3]

\* MouseEvent::Press(MouseButton::WheelDown, _, _)
WheelDown(b) ==
    [b EXCEPT !.row_offset = Min(b.row_offset + 3, Len(b.buffer) - 1)]

\* Normal_event, were j and k bound the other way round
Normal_event_SwapJK(self, b, e, bld) ==
    IF e = Key("i") THEN Trans(Insert, b)
    ELSE IF e = Key("I")
    THEN Trans(Insert, [b EXCEPT !.cursor.col = FirstNonSpace(current_line(b), 0)])
    ELSE IF e = Key("a") THEN Trans(Insert, cursor_right(b))
    ELSE IF e = Key("A")
    THEN Trans(Insert, [b EXCEPT !.cursor.col = Len(current_line(b))])
    ELSE IF e = Key("r") THEN Trans(R, b)
    ELSE IF e = Key("o") THEN Trans(Insert, insert_newline(b))
    ELSE IF e = Key("O") THEN Trans(Insert, insert_newline(cursor_up(b)))
    ELSE IF e = Key("h") THEN Nothing(self, cursor_left(b))
    ELSE IF e = Key("j") THEN Nothing(self, cursor_up(b))
    ELSE IF e = Key("k") THEN Nothing(self, cursor_down(b))
    ELSE IF e = Key("l") THEN Nothing(self, cursor_right(b))
    ELSE IF e = Key("/") THEN Trans(Search, b)
    ELSE IF e = Key(" ") THEN Trans(Prefix, b)
    ELSE IF e.kind = "Left" THEN LeftPress(self, b, e, bld)
    ELSE IF e.kind = "WheelUp" THEN Nothing(self, WheelUp(b))
    ELSE IF e.kind = "WheelDown" THEN Nothing(self, WheelDown(b))
    ELSE Ignored(self, b)

Normal_event(self, b, e, bld) ==
    IF e = Key("i") THEN Trans(Insert, b)
    ELSE IF e = Key("I")
    THEN Trans(Insert, [b EXCEPT !.cursor.col = FirstNonSpace(current_line(b), 0)])
    ELSE IF e = Key("a") THEN Trans(Insert, cursor_right(b))
    ELSE IF e = Key("A")
    THEN Trans(Insert, [b EXCEPT !.cursor.col = Len(current_line(b))])
    ELSE IF e = Key("r") THEN Trans(R, b)
    ELSE IF e = Key("o") THEN Trans(Insert, insert_newline(b))
    ELSE IF e = Key("O") THEN Trans(Insert, insert_newline(cursor_up(b)))
    ELSE IF e = Key("h") THEN Nothing(self, cursor_left(b))
    ELSE IF e = Key("j") THEN Nothing(self, cursor_down(b))
    ELSE IF e = Key("k") THEN Nothing(self, cursor_up(b))
    ELSE IF e = Key("l") THEN Nothing(self, cursor_right(b))
    ELSE IF e = Key("/") THEN Trans(Search, b)
    ELSE IF e = Key(" ") THEN Trans(Prefix, b)
    ELSE IF e.kind = "Left" THEN LeftPress(self, b, e, bld)
    ELSE IF e.kind = "WheelUp" THEN Nothing(self, WheelUp(b))
    ELSE IF e.kind = "WheelDown" THEN Nothing(self, WheelDown(b))
    ELSE Ignored(self, b)

(***************************************************************************)
(* impl Mode for Insert                                                    *)
(***************************************************************************)
\* while core.cursor.col % 4 != 0 { core.insert(' ') }
RECURSIVE TabFill(_)
TabFill(b) == IF b.cursor.col % 4 # 0 THEN TabFill(insert(b, " ")) ELSE b

\* Insert_event, were Esc to step the cursor back
Insert_event_EscLeft(self, b, e) ==
    IF e = Esc THEN Trans(Normal_new, cursor_left(b))
    ELSE IF e = Backspace THEN Nothing(self, backspase(b))
    ELSE IF e = Key("\t") THEN Nothing(self, TabFill(insert(b, " ")))
    ELSE IF e.kind = "Char" THEN Nothing(self, insert(b, e.c))
    ELSE Ignored(self, b)

\* Insert_event, were Tab to fill only up to the next stop
Insert_event_TabNoFirst(self, b, e) ==
    IF e = Esc THEN Trans(Normal_new, b)
    ELSE IF e = Backspace THEN Nothing(self, backspase(b))
    ELSE IF e = Key("\t") THEN Nothing(self, TabFill(b))
    ELSE IF e.kind = "Char" THEN Nothing(self, insert(b, e.c))
    ELSE Ignored(self, b)

Insert_event(self, b, e) ==
    IF e = Esc THEN Trans(Normal_new, b)
    ELSE IF e = Backspace THEN Nothing(self, backspase(b))
    ELSE IF e = Key("\t") THEN Nothing(self, TabFill(insert(b, " ")))
    ELSE IF e.kind = "Char" THEN Nothing(self, insert(b, e.c))
    ELSE Ignored(self, b)

(***************************************************************************)
(* impl Mode for R                                                         *)
(***************************************************************************)
\* R_event, were a character to leave the mode in place
R_event_Stays(self, b, e, atEnd) ==
    IF e = Esc THEN Trans(Normal_new, b)
    ELSE IF e.kind = "Char" THEN Nothing(self, replace(b, e.c, atEnd))
    ELSE Ignored(self, b)

R_event(self, b, e, atEnd) ==
    IF e = Esc THEN Trans(Normal_new, b)
    ELSE IF e.kind = "Char" THEN Trans(Normal_new, replace(b, e.c, atEnd))
    ELSE Ignored(self, b)

(***************************************************************************)
(* impl Mode for Search                                                    *)
(***************************************************************************)
\* Vec::pop, String::pop
pop(s) == IF s = <<>> THEN s ELSE SubSeq(s, 1, Len(s) - 1)

\* Search_event, were Esc on a non-empty query to clear it and stay
Search_event_EscNeedsEmpty(self, b, e) ==
    IF e = Esc
    THEN IF b.search = <<>> THEN Trans(Normal_new, b)
         ELSE Nothing(self, [b EXCEPT !.search = <<>>])
    ELSE IF e = Backspace THEN Nothing(self, [b EXCEPT !.search = pop(@)])
    ELSE IF e.kind = "Char"
    THEN IF e.c = "\n"
         THEN Trans(Normal_new, b)
         ELSE Nothing(self, [b EXCEPT !.search = Append(@, e.c)])
    ELSE Ignored(self, b)

\* Search_event, were leaving with Esc to clear the query
Search_event_EscClears(self, b, e) ==
    IF e = Esc THEN Trans(Normal_new, [b EXCEPT !.search = <<>>])
    ELSE IF e = Backspace THEN Nothing(self, [b EXCEPT !.search = pop(@)])
    ELSE IF e.kind = "Char"
    THEN IF e.c = "\n"
         THEN Trans(Normal_new, b)
         ELSE Nothing(self, [b EXCEPT !.search = Append(@, e.c)])
    ELSE Ignored(self, b)

\* Search_event, were a character to go to the front of the query
Search_event_Prepend(self, b, e) ==
    IF e = Esc THEN Trans(Normal_new, b)
    ELSE IF e = Backspace THEN Nothing(self, [b EXCEPT !.search = pop(@)])
    ELSE IF e.kind = "Char"
    THEN IF e.c = "\n"
         THEN Trans(Normal_new, b)
         ELSE Nothing(self, [b EXCEPT !.search = <<e.c>> \o @])
    ELSE Ignored(self, b)

Search_event(self, b, e) ==
    IF e = Esc THEN Trans(Normal_new, b)
    ELSE IF e = Backspace THEN Nothing(self, [b EXCEPT !.search = pop(@)])
    ELSE IF e.kind = "Char"
    THEN IF e.c = "\n"
         THEN Trans(Normal_new, b)
         ELSE Nothing(self, [b EXCEPT !.search = Append(@, e.c)])
    ELSE Ignored(self, b)

(***************************************************************************)
(* impl Mode for Save                                                      *)
(***************************************************************************)
\* the message after buf.save().unwrap(), for the path shown as p
SaveMessage(ok, p) == IF ok THEN "Saved to " \o p ELSE "Failed to save " \o p

\* SaveNewline, were the path set only once the save succeeded
SaveNewline_PathOnSuccess(self, b, io) ==
    LET b1 == [b EXCEPT !.path = Some(StrOf(self.path))]
        s == save(b1, io)
    IN  IF s = "Err"
        THEN [Panic(self, b1) EXCEPT !.saved = <<s>>]
        ELSE [Trans(Normal_with_message(SaveMessage(s = "Ok(Ok)", StrOf(self.path))),
                    IF s = "Ok(Ok)" THEN b1 ELSE b)
                EXCEPT !.saved = <<s>>]

\* Key::Char('\n') in Save mode
\* SaveNewline, were the buffer saved before the typed path is set
SaveNewline_SaveFirst(self, b, io) ==
    LET b1 == [b EXCEPT !.path = Some(StrOf(self.path))]
        s == save(b, io)
    IN  IF s = "Err"
        THEN [Panic(self, b1) EXCEPT !.saved = <<s>>]
        ELSE [Trans(Normal_with_message(SaveMessage(s = "Ok(Ok)", StrOf(self.path))), b1)
                EXCEPT !.saved = <<s>>]

SaveNewline(self, b, io) ==
    LET b1 == [b EXCEPT !.path = Some(StrOf(self.path))]
        s == save(b1, io)
    IN  IF s = "Err"
        THEN [Panic(self, b1) EXCEPT !.saved = <<s>>]
        ELSE [Trans(Normal_with_message(SaveMessage(s = "Ok(Ok)", StrOf(self.path))), b1)
                EXCEPT !.saved = <<s>>]

\* Save_event, were Esc to keep the typed path as the buffer's
Save_event_EscCommits(self, b, e, io) ==
    IF e = Esc THEN Trans(Normal_new, [b EXCEPT !.path = Some(StrOf(self.path))])
    ELSE IF e = Backspace THEN Nothing([self EXCEPT !.path = pop(@)], b)
    ELSE IF e.kind = "Char"
    THEN IF e.c = "\n"
         THEN SaveNewline(self, b, io)
         ELSE Nothing([self EXCEPT !.path = Append(@, e.c)], b)
    ELSE Ignored(self, b)

Save_event(self, b, e, io) ==
    IF e = Esc THEN Trans(Normal_new, b)
    ELSE IF e = Backspace THEN Nothing([self EXCEPT !.path = pop(@)], b)
    ELSE IF e.kind = "Char"
    THEN IF e.c = "\n"
         THEN SaveNewline(self, b, io)
         ELSE Nothing([self EXCEPT !.path = Append(@, e.c)], b)
    ELSE Ignored(self, b)

(***************************************************************************)
(* impl Mode for Prefix                                                    *)
(***************************************************************************)
\* PrefixSave, were it to ask for a path every time
PrefixSave_AlwaysPrompt(self, b, io) == Trans(Save(<<>>), b)

\* Key::Char('s') in Prefix mode
PrefixSave(self, b, io) ==
    IF b.path.some
    THEN LET s == save(b, io)
         IN  IF s = "Err"
             THEN [Panic(self, b) EXCEPT !.saved = <<s>>]
             ELSE [Trans(Normal_with_message(SaveMessage(s = "Ok(Ok)", b.path.p)), b)
                     EXCEPT !.saved = <<s>>]
    ELSE Trans(Save(<<>>), b)

\* Prefix_event, were `q` to save a buffer that has a path before it exits
Prefix_event_SaveOnQuit(self, b, e, io) ==
    IF e = Esc THEN Trans(Normal_new, b)
    ELSE IF e = Key("q")
    THEN IF b.path.some THEN [Exit(self, b) EXCEPT !.saved = <<save(b, io)>>] ELSE Exit(self, b)
    ELSE IF e = Key("s") THEN PrefixSave(self, b, io)
    ELSE Ignored(self, b)

Prefix_event(self, b, e, io) ==
    IF e = Esc THEN Trans(Normal_new, b)
    ELSE IF e = Key("q") THEN Exit(self, b)
    ELSE IF e = Key("s") THEN PrefixSave(self, b, io)
    ELSE Ignored(self, b)

\* Mode::event called on the current mode: the handler of that mode
Mode_event(self, b, e, bld, io, atEnd) ==
    IF self.name = "Normal" THEN Normal_event(self, b, e, bld)
    ELSE IF self.name = "Prefix" THEN Prefix_event(self, b, e, io)
    ELSE IF self.name = "Insert" THEN Insert_event(self, b, e)
    ELSE IF self.name = "R" THEN R_event(self, b, e, atEnd)
    ELSE IF self.name = "Search" THEN Search_event(self, b, e)
    ELSE Save_event(self, b, e, io)

(***************************************************************************)
(* The driver: one event at a time goes to the current mode                *)
(***************************************************************************)
InsOff == [on |-> FALSE, buffer |-> <<>>, cursor |-> [row |-> 0, col |-> 0], typed |-> <<>>]

\* the record of an insert session: opened by `i`, extended by each printable
\* character, kept by Esc, closed by anything else
InsNext(m, b, e) ==
    IF m.name = "Normal" /\ e = Key("i")
    THEN [on |-> TRUE, buffer |-> b.buffer, cursor |-> b.cursor, typed |-> <<>>]
    ELSE IF m.name = "Insert" /\ ins.on /\ e.kind = "Char" /\ e.c # "\t"
    THEN [ins EXCEPT !.typed = Append(@, e.c)]
    ELSE IF m.name = "Insert" /\ ins.on /\ e = Esc
    THEN ins
    ELSE InsOff

Running == trans \notin {"Exit", "Panic"}

Changed(r) ==
    \/ r.buf.buffer # buf.buffer
    \/ r.buf.search # buf.search
    \/ (r.t = "Nothing" /\ r.m.path # mode.path)

\* a printable character typed after `i`
Typing(e) == mode.name = "Insert" /\ ins.on /\ e.kind = "Char" /\ e.c # "\t"

\* a change of the query in Search mode
Querying(r) == mode.name = "Search" /\ r.buf.search # buf.search

\* the budget pays for every event that changes text, query or typed path:
\* `typed` for characters typed after `i`, `query` for changes of the search
\* query, `edits` for any other change
Pay(r, e) ==
    IF ~Changed(r) THEN budget' = budget
    ELSE IF Typing(e) /\ budget.typed > 0 THEN budget' = [budget EXCEPT !.typed = @ - 1]
    ELSE IF Querying(r) THEN budget.query > 0 /\ budget' = [budget EXCEPT !.query = @ - 1]
    ELSE budget.edits > 0 /\ budget' = [budget EXCEPT !.edits = @ - 1]

Step(r, e) ==
    /\ Pay(r, e)
    /\ mode' = r.m
    /\ buf' = r.buf
    /\ trans' = r.t
    /\ saved' = r.saved
    /\ arith' = r.arith
    /\ prev' = [mode |-> mode, buf |-> buf]
    /\ lastEvent' = e
    /\ ins' = InsNext(mode, buf, e)

Keys == {Esc, Backspace}
Others == {Press("Left", 0, 0)}

NormalEvents ==
    {Key(c) : c \in NormalChars} \cup {Esc}
    \cup {Press("Left", x, y) : x \in 0..TermWidth, y \in 0..TermHeight}
    \cup {Press("WheelUp", 1, 1), Press("WheelDown", 1, 1)}
PrefixEvents == {Key(c) : c \in PrefixChars} \cup {Esc} \cup Others
InsertEvents == {Key(c) : c \in Typed \cup {"\t"}} \cup Keys \cup Others
REvents == {Key(c) : c \in Typed} \cup Keys \cup Others
SearchEvents == {Key(c) : c \in Typed \cup {"\n"}} \cup Keys \cup Others
SaveEvents == {Key(c) : c \in {"o", "\n"}} \cup Keys \cup Others

\* the build profiles that differ on e: overflow checks on (debug) or off
Builds(e) == IF e.kind = "Left" /\ (e.x = 0 \/ e.y = 0) THEN {"debug", "release"} ELSE {"release"}

NormalEvent ==
    /\ Running /\ mode.name = "Normal"
    /\ \E e \in NormalEvents : \E bld \in Builds(e) :
          /\ e.kind \in {"WheelUp", "WheelDown"} => budget.scroll
          /\ Step(Normal_event(mode, buf, e, bld), e)

InsertEvent ==
    /\ Running /\ mode.name = "Insert"
    /\ \E e \in InsertEvents : Step(Insert_event(mode, buf, e), e)

REvent ==
    /\ Running /\ mode.name = "R"
    /\ \E e \in REvents, atEnd \in BOOLEAN : Step(R_event(mode, buf, e, atEnd), e)

SearchEvent ==
    /\ Running /\ mode.name = "Search"
    /\ \E e \in SearchEvents : Step(Search_event(mode, buf, e), e)

SaveEvent ==
    /\ Running /\ mode.name = "Save"
    /\ \E e \in SaveEvents, io \in BOOLEAN : Step(Save_event(mode, buf, e, io), e)

PrefixEvent ==
    /\ Running /\ mode.name = "Prefix"
    /\ \E e \in PrefixEvents, io \in BOOLEAN : Step(Prefix_event(mode, buf, e, io), e)

\* the editor opens on the first k lines of the file, under the path p
Open(k, p) ==
    /\ mode = Normal_new
    /\ buf = [buffer |-> [i \in 1..k |-> File(i)], cursor |-> [row |-> 0, col |-> 0],
              row_offset |-> 0, path |-> p, search |-> <<>>]
    /\ trans = "Init"
    /\ prev = [mode |-> mode, buf |-> buf]
    /\ lastEvent = Unsupported
    /\ saved = <<>>
    /\ arith = "ok"
    /\ ins = InsOff

\* a new two-line text without a path, and up to MaxEdits edits of it
Init == Open(Len(NewText), None) /\ budget = [edits |-> MaxEdits, typed |-> 0, query |-> 0, scroll |-> FALSE]

\* the same text, and up to MaxTyped characters typed into it after `i`
InitInsert == Open(Len(NewText), None) /\ budget = [edits |-> 0, typed |-> MaxTyped, query |-> 0, scroll |-> FALSE]

\* a file of any length up to MaxInitLines, named or not, scrolled and saved
\* but not edited
InitSearch == Open(Len(NewText), None) /\ budget = [edits |-> 0, typed |-> 0, query |-> MaxQuery, scroll |-> FALSE]

InitView ==
    /\ \E k \in 1..MaxInitLines, p \in {None, Some("f")} : Open(k, p)
    /\ budget = [edits |-> 0, typed |-> 0, query |-> 0, scroll |-> TRUE]

Next ==
    \/ NormalEvent
    \/ InsertEvent
    \/ REvent
    \/ SearchEvent
    \/ SaveEvent
    \/ PrefixEvent

Spec == Init /\ [][Next]_vars

SpecView == InitView /\ [][Next]_vars

SpecInsert == InitInsert /\ [][Next]_vars

SpecSearch == InitSearch /\ [][Next]_vars

TypeOK ==
    /\ mode.name \in {"Normal", "Prefix", "Insert", "R", "Search", "Save"}
    /\ Len(buf.buffer) >= 1
    /\ buf.cursor.row < Len(buf.buffer)
    /\ buf.cursor.col <= Len(current_line(buf))
    /\ buf.row_offset >= 0
    /\ budget.edits \in 0..MaxEdits
    /\ budget.typed \in 0..MaxTyped
    /\ budget.query \in 0..MaxQuery
    /\ budget.scroll \in BOOLEAN

(***************************************************************************)
(* Properties.  Each reads the last call off the state: prev is what the   *)
(* handler got, lastEvent the event, trans what it returned, mode and buf  *)
(* what it left.                                                           *)
(***************************************************************************)
Called == trans # "Init"

NormalBound == {"i", "I", "a", "A", "r", "o", "O", "h", "j", "k", "l", "/", " "}

\* the events the `match` of mode m has an arm for, other than `_`
Binds(m, e) ==
    CASE m = "Normal" -> \/ e.kind = "Char" /\ e.c \in NormalBound
                         \/ e.kind \in {"Left", "WheelUp", "WheelDown"}
      [] m = "Insert" -> e.kind \in {"Esc", "Backspace", "Char"}
      [] m = "R"      -> e.kind \in {"Esc", "Char"}
      [] m = "Search" -> e.kind \in {"Esc", "Backspace", "Char"}
      [] m = "Save"   -> e.kind \in {"Esc", "Backspace", "Char"}
      [] m = "Prefix" -> e.kind = "Esc" \/ (e.kind = "Char" /\ e.c \in {"q", "s"})

Handled(m, e) == Called /\ prev.mode.name = m /\ lastEvent = e

\* C1: an event the current mode does not bind returns Nothing, invokes no
\* save, and leaves the buffer (text, cursor, row_offset, path, search) and
\* the mode (with Normal's message and Save's typed path) as they were.
C1_UnboundIsNoOp ==
    (Called /\ ~Binds(prev.mode.name, lastEvent)) =>
        /\ trans = "Nothing"
        /\ buf = prev.buf
        /\ mode = prev.mode
        /\ saved = <<>>

\* an unbound event arrived in Save mode with a path half typed
C1_Witness ==
    /\ Called /\ ~Binds(prev.mode.name, lastEvent)
    /\ prev.mode.name = "Save" /\ prev.mode.path # <<>>
    /\ trans = "Nothing"

\* C2: every call of a handler returns a Transition: none panics and none
\* wraps a subtraction below zero.
C2_Total == trans # "Panic" /\ arith = "ok"

\* C3: Esc in Insert, R, Search, Save and Prefix returns Trans(Normal) with an
\* empty message and leaves the buffer as it was (in Save the typed path is
\* dropped, the buffer's path is not set); a character in R leaves a Normal
\* with an empty message, and Esc in Normal keeps the message it has.
C3_EscToFreshNormal ==
    /\ (Called /\ lastEvent = Esc /\ prev.mode.name # "Normal") =>
          /\ trans = "Trans"
          /\ mode.name = "Normal" /\ mode.message = ""
          /\ buf = prev.buf
          /\ saved = <<>>
    /\ (Called /\ prev.mode.name = "R" /\ lastEvent.kind = "Char") =>
          mode.name = "Normal" /\ mode.message = ""
    /\ (Called /\ lastEvent = Esc /\ prev.mode.name = "Normal") =>
          mode.name = "Normal" /\ mode.message = prev.mode.message

\* Esc in Save mode with a path typed, on a buffer without a path
C3_Witness ==
    /\ Handled("Save", Esc)
    /\ prev.mode.path # <<>>
    /\ ~buf.path.some
    /\ mode.name = "Normal"

\* text with the characters of seq put in at `at`
Splice(text, at, seq) ==
    [text EXCEPT ![at.row + 1] =
        SubSeq(@, 1, at.col) \o seq \o SubSeq(@, at.col + 1, Len(@))]

\* C4: after `i` and a sequence of printable characters the text is the text
\* `i` found with the sequence spliced in at the cursor `i` found, the cursor
\* is advanced by the length of the sequence, and Esc then ends in Normal.
C4_InsertRoundTrip ==
    ins.on =>
        /\ buf.buffer = Splice(ins.buffer, ins.cursor, ins.typed)
        /\ buf.cursor = [row |-> ins.cursor.row, col |-> ins.cursor.col + Len(ins.typed)]
        /\ \/ mode.name = "Insert" /\ lastEvent # Esc
           \/ mode.name = "Normal" /\ mode.message = "" /\ lastEvent = Esc /\ trans = "Trans"

\* Esc after two different characters typed in the middle of a line
C4_Witness ==
    /\ ins.on /\ Handled("Insert", Esc)
    /\ Len(ins.typed) = 2 /\ ins.typed[1] # ins.typed[2]
    /\ ins.cursor.col = 1

\* C5: a character c in R mode returns Trans(Normal) with an empty message;
\* the character under the cursor, when there is one, becomes c and nothing
\* else of the buffer changes.
C5_ReplaceOneShot ==
    (Called /\ prev.mode.name = "R" /\ lastEvent.kind = "Char") =>
        /\ trans = "Trans"
        /\ mode.name = "Normal" /\ mode.message = ""
        /\ buf.cursor = prev.buf.cursor
        /\ buf.row_offset = prev.buf.row_offset
        /\ buf.path = prev.buf.path
        /\ buf.search = prev.buf.search
        /\ saved = <<>>
        /\ prev.buf.cursor.col < Len(current_line(prev.buf)) =>
              buf.buffer = [prev.buf.buffer EXCEPT
                              ![prev.buf.cursor.row + 1][prev.buf.cursor.col + 1] = lastEvent.c]

\* a character other than the one under the cursor was typed in R mode
C5_Witness ==
    /\ Called /\ prev.mode.name = "R" /\ lastEvent.kind = "Char"
    /\ prev.buf.cursor.col < Len(current_line(prev.buf))
    /\ buf.buffer # prev.buf.buffer

\* C6: newline in Save mode with the path p typed sets the buffer's path to
\* p, invokes save once and returns Trans(Normal) with the message
\* "Saved to p" when the save succeeded and "Failed to save p" when it failed;
\* the buffer's path is p in both cases and nothing else of the buffer changes.
C6_SaveNewline ==
    Handled("Save", Key("\n")) =>
        /\ buf = [prev.buf EXCEPT !.path = [some |-> TRUE, p |-> StrOf(prev.mode.path)]]
        /\ Len(saved) = 1
        /\ saved[1] \in {"Ok(Ok)", "Ok(Err)"}
        /\ trans = "Trans"
        /\ mode.name = "Normal"
        /\ saved[1] = "Ok(Ok)" => mode.message = "Saved to " \o StrOf(prev.mode.path)
        /\ saved[1] = "Ok(Err)" => mode.message = "Failed to save " \o StrOf(prev.mode.path)

\* the save of a typed path failed: the path is set all the same
C6_Witness ==
    /\ Handled("Save", Key("\n"))
    /\ prev.mode.path = <<"o">>
    /\ ~prev.buf.path.some
    /\ saved = <<"Ok(Err)">>
    /\ buf.path = [some |-> TRUE, p |-> "o"]
    /\ mode.message = "Failed to save o"

\* C7: space in Normal returns Trans(Prefix) and `q` in Prefix returns Exit;
\* neither changes the buffer nor invokes save, whatever the buffer holds.
C7_Quit ==
    /\ (Called /\ prev.mode.name = "Normal" /\ lastEvent = Key(" ")) =>
          trans = "Trans" /\ mode.name = "Prefix" /\ buf = prev.buf /\ saved = <<>>
    /\ (Called /\ prev.mode.name = "Prefix" /\ lastEvent = Key("q")) =>
          trans = "Exit" /\ buf = prev.buf /\ saved = <<>>

\* quit with the path set, after an edit that no save followed
C7_Witness ==
    /\ Handled("Prefix", Key("q"))
    /\ trans = "Exit"
    /\ buf.path.some
    /\ budget.edits < MaxEdits

\* C8: `s` in Prefix mode saves at once when the buffer has a path (the path
\* stays, the message names it) and opens Save mode with an empty path, without
\* saving, when it has none; the buffer is unchanged either way.
C8_PrefixSave ==
    Handled("Prefix", Key("s")) =>
        /\ buf = prev.buf
        /\ trans = "Trans"
        /\ prev.buf.path.some =>
              /\ Len(saved) = 1
              /\ saved[1] \in {"Ok(Ok)", "Ok(Err)"}
              /\ mode.name = "Normal"
              /\ saved[1] = "Ok(Ok)" => mode.message = "Saved to " \o prev.buf.path.p
              /\ saved[1] = "Ok(Err)" => mode.message = "Failed to save " \o prev.buf.path.p
        /\ ~prev.buf.path.some =>
              /\ saved = <<>>
              /\ mode.name = "Save" /\ mode.path = <<>>

\* `s` on a buffer whose path was set in Save mode, and the save fails
C8_Witness ==
    /\ Handled("Prefix", Key("s"))
    /\ prev.buf.path = [some |-> TRUE, p |-> "o"]
    /\ saved = <<"Ok(Err)">>
    /\ mode.message = "Failed to save o"

\* C9: wheel-down in Normal sets row_offset to the smaller of row_offset + 3
\* and line_count - 1, so it ends at most at line_count - 1 and stays there;
\* the mode, the text and the cursor are unchanged.
C9_WheelDownClamp ==
    (Called /\ prev.mode.name = "Normal" /\ lastEvent.kind = "WheelDown") =>
        LET off == prev.buf.row_offset
            last == Len(prev.buf.buffer) - 1
        IN  /\ buf.row_offset = (IF off + 3 <= last THEN off + 3 ELSE last)
            /\ buf.row_offset <= Len(buf.buffer) - 1
            /\ off = last => buf.row_offset = off
            /\ buf = [prev.buf EXCEPT !.row_offset = buf.row_offset]
            /\ trans = "Nothing"
            /\ mode = prev.mode

\* wheel-down moved the view, by less than 3 rows, onto the last line
C9_Witness ==
    /\ Called /\ prev.mode.name = "Normal" /\ lastEvent.kind = "WheelDown"
    /\ prev.buf.row_offset < buf.row_offset
    /\ buf.row_offset < prev.buf.row_offset + 3
    /\ buf.row_offset = Len(buf.buffer) - 1

\* C10: wheel-up in Normal sets row_offset to the larger of row_offset - 3 and
\* 0: never below 0, 0 from 0, 1 and 2, three less otherwise; the mode, the
\* text and the cursor are unchanged.
C10_WheelUpFloor ==
    (Called /\ prev.mode.name = "Normal" /\ lastEvent.kind = "WheelUp") =>
        LET off == prev.buf.row_offset
        IN  /\ buf.row_offset = (IF off - 3 >= 0 THEN off - 3 ELSE 0)
            /\ buf.row_offset >= 0
            /\ off \in {0, 1, 2} => buf.row_offset = 0
            /\ arith = "ok"
            /\ buf = [prev.buf EXCEPT !.row_offset = buf.row_offset]
            /\ trans = "Nothing"
            /\ mode = prev.mode

\* wheel-up from row_offset 1, reached by scrolling down twice and up once
C10_Witness ==
    /\ Called /\ prev.mode.name = "Normal" /\ lastEvent.kind = "WheelUp"
    /\ prev.buf.row_offset = 1
    /\ buf.row_offset = 0


\* C11: Tab in Insert mode at column c leaves the cursor at the next multiple
\* of 4 above c (at most 4 further), having put that many spaces, and nothing
\* else, in at the cursor; the mode stays Insert.
C11_TabStop ==
    Handled("Insert", Key("\t")) =>
        LET c == prev.buf.cursor.col
            c1 == buf.cursor.col
        IN  /\ c1 > c
            /\ c1 % 4 = 0
            /\ c1 - c <= 4
            /\ buf = [prev.buf EXCEPT
                        !.buffer = Splice(@, prev.buf.cursor, [i \in 1..(c1 - c) |-> " "]),
                        !.cursor.col = c1]
            /\ trans = "Nothing"
            /\ mode = prev.mode
            /\ saved = <<>>

\* Tab at column 1 put in three spaces
C11_Witness ==
    /\ Handled("Insert", Key("\t"))
    /\ prev.buf.cursor.col = 1
    /\ buf.cursor.col = 4
    /\ Len(current_line(buf)) = Len(current_line(prev.buf)) + 3


\* C12: in Normal mode i, I, a, A, o and O return Trans(Insert), r returns
\* Trans(Replace), / returns Trans(Search) and space returns Trans(Prefix);
\* h, j, k and l return Nothing after moving the cursor left, down, up and
\* right (each move clamped to the text); i, r, / and space leave the buffer
\* as it was; A puts the column at the length of the current line and a moves
\* the cursor right one column; no Normal-mode event returns Exit or
\* Trans(Save).
C12_NormalTable ==
    (Called /\ prev.mode.name = "Normal") =>
        LET e == lastEvent
            b == prev.buf
            row == b.cursor.row
            col == b.cursor.col
            last == Len(b.buffer) - 1
            At(r, c) == [b EXCEPT !.cursor = [row |-> r, col |-> c]]
            To(m) == trans = "Trans" /\ mode = m
            Stay == trans = "Nothing" /\ mode = prev.mode
        IN  /\ e \in {Key(c) : c \in {"i", "I", "a", "A", "o", "O"}} => To(Insert)
            /\ e = Key("r") => To(R)
            /\ e = Key("/") => To(Search)
            /\ e = Key(" ") => To(Prefix)
            /\ e \in {Key(c) : c \in {"i", "r", "/", " "}} => buf = b
            /\ e = Key("A") => buf = At(row, Len(b.buffer[row + 1]))
            /\ e = Key("a") => buf = At(row, Min(col + 1, Len(b.buffer[row + 1])))
            /\ e = Key("h") => Stay /\ buf = At(row, IF col = 0 THEN 0 ELSE col - 1)
            /\ e = Key("l") => Stay /\ buf = At(row, Min(col + 1, Len(b.buffer[row + 1])))
            /\ e = Key("j") =>
                    /\ Stay
                    /\ buf = IF row = last THEN b
                             ELSE At(row + 1, Min(col, Len(b.buffer[row + 2])))
            /\ e = Key("k") =>
                    /\ Stay
                    /\ buf = IF row = 0 THEN b
                             ELSE At(row - 1, Min(col, Len(b.buffer[row])))
            /\ trans # "Exit"
            /\ mode.name # "Save"

\* j took the cursor from the end of the first line down to the empty second line
C12_Witness ==
    /\ Handled("Normal", Key("j"))
    /\ prev.buf.cursor = [row |-> 0, col |-> 2]
    /\ buf.cursor = [row |-> 1, col |-> 0]
    /\ mode.name = "Normal"


\* C13: the search query belongs to the buffer and is carried through every
\* mode change; only a character other than newline or a Backspace handled in
\* Search mode changes it, so entering Search with / shows the query that was
\* left there.
C13_QueryShared ==
    (Called /\ buf.search # prev.buf.search) =>
        /\ prev.mode.name = "Search"
        /\ \/ lastEvent = Backspace
           \/ lastEvent.kind = "Char" /\ lastEvent.c # "\n"

\* Search is entered again with / and still holds the two characters typed before
C13_Witness ==
    /\ Handled("Normal", Key("/"))
    /\ mode.name = "Search"
    /\ Len(buf.search) = 2
    /\ buf.search = prev.buf.search


\* C14: O in Normal mode, on any cursor row (row 0 included), opens a new empty
\* line above the line the cursor was on and leaves the cursor on the new
\* line, returning Trans(Insert).
C14_OpensAbove ==
    Handled("Normal", Key("O")) =>
        /\ trans = "Trans"
        /\ mode = Insert
        /\ buf.buffer = InsertAt(prev.buf.buffer, prev.buf.cursor.row, <<>>)
        /\ buf.cursor = [row |-> prev.buf.cursor.row, col |-> 0]

\* O away from the first row does open the line above
C14_BelowFirstRow ==
    (Handled("Normal", Key("O")) /\ prev.buf.cursor.row > 0) =>
        /\ buf.buffer = InsertAt(prev.buf.buffer, prev.buf.cursor.row, <<>>)
        /\ buf.cursor = [row |-> prev.buf.cursor.row, col |-> 0]


\* C15: a left press at screen (x, y) in Normal mode looks up the cell
\* (row y - 1, column x - 1); the cursor becomes the buffer position shown in
\* that cell, or stays where it was when the cell shows none; text, scroll
\* offset, path and query are unchanged and the result is Nothing.
C15_LeftClick ==
    (Called /\ prev.mode.name = "Normal" /\ lastEvent.kind = "Left") =>
        LET b == prev.buf
            r == lastEvent.y - 1
            c == lastEvent.x - 1
            shown == /\ r >= 0 /\ r < TermHeight
                     /\ c >= 0 /\ c < TermWidth
                     /\ b.row_offset + r < Len(b.buffer)
                     /\ c < Len(b.buffer[b.row_offset + r + 1])
        IN  /\ trans = "Nothing"
            /\ mode = prev.mode
            /\ buf = IF shown
                     THEN [b EXCEPT !.cursor = [row |-> b.row_offset + r, col |-> c]]
                     ELSE b

\* C15, for presses inside the screen's coordinates (x and y at least 1)
C15_OnScreen ==
    (lastEvent.x >= 1 /\ lastEvent.y >= 1) => C15_LeftClick


\* C16: in Search mode a character other than newline is appended to the end
\* of the query; Backspace removes its last character and does nothing to an
\* empty query; newline returns Trans(Normal) with an empty message and the
\* query as it was; none of them changes text, cursor, scroll offset or path,
\* and characters and Backspace return Nothing.
C16_SearchEditing ==
    (Called /\ prev.mode.name = "Search") =>
        LET e == lastEvent
            q == prev.buf.search
        IN  /\ (e.kind = "Char" /\ e.c # "\n") =>
                    /\ trans = "Nothing" /\ mode = prev.mode
                    /\ buf = [prev.buf EXCEPT !.search = q \o <<e.c>>]
            /\ e = Backspace =>
                    /\ trans = "Nothing" /\ mode = prev.mode
                    /\ buf = [prev.buf EXCEPT
                                !.search = IF q = <<>> THEN <<>> ELSE SubSeq(q, 1, Len(q) - 1)]
            /\ e = Key("\n") =>
                    /\ trans = "Trans" /\ mode = Normal_new /\ mode.message = ""
                    /\ buf = prev.buf
            /\ buf.buffer = prev.buf.buffer
            /\ buf.cursor = prev.buf.cursor
            /\ buf.row_offset = prev.buf.row_offset
            /\ buf.path = prev.buf.path

\* Backspace took the last of two different characters off the query
C16_Witness ==
    /\ Handled("Search", Backspace)
    /\ prev.buf.search = <<"x", " ">>
    /\ buf.search = <<"x">>


\* C17: Exit is returned only by Prefix mode handling q, and Prefix mode is
\* entered only from Normal mode by space, so the editor quits only by
\* q pressed in the Prefix mode that space opened.
C17_ExitOnlyPrefixQ ==
    /\ trans = "Exit" => Handled("Prefix", Key("q"))
    /\ (Called /\ mode.name = "Prefix") =>
            \/ Handled("Normal", Key(" ")) /\ trans = "Trans"
            \/ prev.mode.name = "Prefix" /\ trans \in {"Nothing", "Exit"} /\ buf = prev.buf

\* q quits from the Prefix mode of a buffer that was never saved
C17_Witness ==
    /\ trans = "Exit"
    /\ prev.mode = Prefix
    /\ lastEvent = Key("q")
    /\ ~buf.path.some


\* C18: save is called only on a buffer whose path is set (Prefix s checks the
\* path first, Save newline sets it just before the call), so save never
\* answers with the outer error and the unwrap never panics.
C18_SaveHasPath ==
    saved # <<>> =>
        /\ buf.path.some
        /\ \A i \in 1..Len(saved) : saved[i] # "Err"
        /\ trans # "Panic"
        /\ \/ Handled("Prefix", Key("s")) /\ prev.buf.path.some
           \/ Handled("Save", Key("\n")) /\ buf.path = Some(StrOf(prev.mode.path))

\* newline in Save mode saved a buffer that had no path before the call
C18_Witness ==
    /\ Handled("Save", Key("\n"))
    /\ ~prev.buf.path.some
    /\ saved = <<"Ok(Ok)">>
    /\ buf.path.some


\* C19: whenever the mode is Save the buffer has no path; the path is changed
\* only by newline handled in Save mode, and once set it is never unset, so
\* Save mode is not entered again after a path is set.
C19_SaveMeansNoPath ==
    /\ mode.name = "Save" => ~buf.path.some
    /\ (Called /\ buf.path # prev.buf.path) =>
            Handled("Save", Key("\n")) /\ ~prev.buf.path.some /\ buf.path.some
    /\ prev.buf.path.some => buf.path.some

\* with the path set by an earlier Save, s in Prefix mode goes back to Normal
C19_Witness ==
    /\ Handled("Prefix", Key("s"))
    /\ prev.buf.path.some
    /\ mode.name = "Normal"
    /\ mode.name # "Save"
    /\ buf.path = prev.buf.path


\* C20: from every reachable state in which the editor is still running, the
\* events Esc, space, q in this order end in Exit: Esc returns to Normal mode
\* from every other mode and does nothing in Normal mode, space then opens
\* Prefix mode and q quits; the buffer is as it was.
C20_EscSpaceQ ==
    Running =>
        \A bld \in {"debug", "release"}, io \in BOOLEAN, atEnd \in BOOLEAN :
            LET r1 == Mode_event(mode, buf, Esc, bld, io, atEnd)
                r2 == Mode_event(r1.m, r1.buf, Key(" "), bld, io, atEnd)
                r3 == Mode_event(r2.m, r2.buf, Key("q"), bld, io, atEnd)
            IN  /\ r1.m.name = "Normal"
                /\ IF mode.name = "Normal" THEN r1 = Nothing(mode, buf)
                                           ELSE r1 = Trans(Normal_new, buf)
                /\ r2 = Trans(Prefix, buf)
                /\ r3.t = "Exit"
                /\ r3.buf = buf

\* Esc has just left Search mode, with a query typed, for Normal mode
C20_Witness ==
    /\ Handled("Search", Esc)
    /\ prev.buf.search # <<>>
    /\ mode = Normal_new
    /\ Running

====
